---- MODULE Spec2Model ----
(***************************************************************************)
(* Swap-math engine of token-mill-v2-sdk (src/quote/math.rs and            *)
(* src/quote/swap_math.rs).                                                *)
(*                                                                         *)
(* The engine works on u64/i64/u128 machine integers and on ruint's U256   *)
(* and U512.  TLC's integers are 32 bits wide, so every program integer is *)
(* held here at its full width as a natural number in limb form: a         *)
(* sequence of digits in base 2^15, least significant digit first, without *)
(* leading zero digits (the empty sequence is 0).  The operators of the    *)
(* first section are exact arithmetic on that form; the widths of the      *)
(* program's types are applied on top of it, operation by operation, as    *)
(* the source applies them.                                                *)
(*                                                                         *)
(* A value that a Rust function binds with `let` and uses more than once   *)
(* is passed here as the argument of an operator that models the rest of   *)
(* the function, so that it is written, and evaluated, once.               *)
(***************************************************************************)
EXTENDS Integers, Sequences, FiniteSets, TLC

(***************************************************************************)
(* Exact natural-number arithmetic in limb form.                           *)
(***************************************************************************)
Base == 2 ^ 15

Zero == << >>

Limb(a, i) == IF i <= Len(a) THEN a[i] ELSE 0

RECURSIVE NormLen(_, _)
NormLen(a, n) == IF n = 0 THEN 0 ELSE IF a[n] # 0 THEN n ELSE NormLen(a, n - 1)

\* a without its leading (most significant) zero digits
Norm(a) == SubSeq(a, 1, NormLen(a, Len(a)))

\* a TLC integer 0 <= n < 2^31 in limb form
Num(n) ==
    IF n = 0 THEN << >>
    ELSE IF n < Base THEN << n >>
    ELSE IF n < Base * Base THEN << n % Base, n \div Base >>
    ELSE << n % Base, (n \div Base) % Base, n \div (Base * Base) >>

One == << 1 >>

IsZero(a) == Len(a) = 0

RECURSIVE CmpFrom(_, _, _)
CmpFrom(a, b, i) ==
    IF i = 0 THEN 0
    ELSE IF a[i] < b[i] THEN -1
    ELSE IF a[i] > b[i] THEN 1
    ELSE CmpFrom(a, b, i - 1)

\* -1, 0, 1 as a < b, a = b, a > b
Cmp(a, b) ==
    IF Len(a) < Len(b) THEN -1
    ELSE IF Len(a) > Len(b) THEN 1
    ELSE CmpFrom(a, b, Len(a))

Lt(a, b) == Cmp(a, b) < 0
Le(a, b) == Cmp(a, b) <= 0
Gt(a, b) == Cmp(a, b) > 0
Ge(a, b) == Cmp(a, b) >= 0

\* TLC passes operator arguments unevaluated: each recursive operator below reads
\* its accumulator at every step (its length is the position reached), so that no
\* chain of pending arguments builds up.
RECURSIVE AddFrom(_, _, _, _)
AddFrom(a, b, c, acc) ==
    IF Len(acc) >= Len(a) /\ Len(acc) >= Len(b)
    THEN IF c = 0 THEN acc ELSE Append(acc, c)
    ELSE AddFrom(a, b,
                 (Limb(a, Len(acc) + 1) + Limb(b, Len(acc) + 1) + c) \div Base,
                 Append(acc, (Limb(a, Len(acc) + 1) + Limb(b, Len(acc) + 1) + c) % Base))

Add(a, b) == AddFrom(a, b, 0, << >>)

\* c is the borrow
RECURSIVE SubFrom(_, _, _, _)
SubFrom(a, b, c, acc) ==
    IF Len(acc) >= Len(a) THEN acc
    ELSE SubFrom(a, b,
                 IF a[Len(acc) + 1] - Limb(b, Len(acc) + 1) - c < 0 THEN 1 ELSE 0,
                 Append(acc, (a[Len(acc) + 1] - Limb(b, Len(acc) + 1) - c + Base) % Base))

\* a - b, for a >= b
Sub(a, b) == Norm(SubFrom(a, b, 0, << >>))

RECURSIVE MulSmallFrom(_, _, _, _)
MulSmallFrom(a, m, c, acc) ==
    IF Len(acc) >= Len(a)
    THEN IF c = 0 THEN acc ELSE Append(acc, c)
    ELSE MulSmallFrom(a, m, (a[Len(acc) + 1] * m + c) \div Base,
                      Append(acc, (a[Len(acc) + 1] * m + c) % Base))

\* a * m, for a digit 0 <= m < Base
MulSmall(a, m) == IF m = 0 \/ IsZero(a) THEN << >> ELSE MulSmallFrom(a, m, 0, << >>)

\* a * Base^k
ShiftLimbs(a, k) == IF IsZero(a) \/ k = 0 THEN a ELSE [i \in 1..k |-> 0] \o a

\* the number of zero digits at the low end of a # 0
RECURSIVE LowZeros(_, _)
LowZeros(a, i) == IF a[i + 1] # 0 THEN i ELSE LowZeros(a, i + 1)

\* a * b, from digit i of b downwards (Horner): acc = a * (b[i+1] + b[i+2] * Base + ...)
RECURSIVE MulFrom(_, _, _, _)
MulFrom(a, b, i, acc) ==
    IF Len(acc) >= 0 /\ i = 0 THEN acc
    ELSE MulFrom(a, b, i - 1, Add(MulSmall(a, b[i]), ShiftLimbs(acc, 1)))

\* a * b for a, b # 0: the shorter factor drives the loop
MulOrdered(a, b) ==
    IF Len(a) >= Len(b) THEN MulFrom(a, b, Len(b), << >>) ELSE MulFrom(b, a, Len(a), << >>)

\* a * b for a, b # 0 with za and zb low zero digits, which are set aside
MulTrimmed(a, b, za, zb) ==
    ShiftLimbs(MulOrdered(SubSeq(a, za + 1, Len(a)), SubSeq(b, zb + 1, Len(b))), za + zb)

Mul(a, b) ==
    IF IsZero(a) \/ IsZero(b) THEN << >>
    ELSE MulTrimmed(a, b, LowZeros(a, 0), LowZeros(b, 0))

\* acc holds the quotient digits found so far, most significant first
RECURSIVE DivSmallFrom(_, _, _, _)
DivSmallFrom(a, m, r, acc) ==
    IF Len(acc) >= Len(a) THEN [q |-> acc, r |-> r]
    ELSE DivSmallFrom(a, m, (r * Base + a[Len(a) - Len(acc)]) % m,
                      Append(acc, (r * Base + a[Len(a) - Len(acc)]) \div m))

\* a sequence of digits, most significant first, as a number in limb form
Reverse(s) == Norm([i \in 1..Len(s) |-> s[Len(s) + 1 - i]])

\* the quotient digits of s, most significant first, put in limb form
DivSmallOut(s) == [q |-> Reverse(s.q), r |-> s.r]

\* quotient (limb form) and remainder (a digit) of a by a digit 0 < m < Base
DivSmall(a, m) == DivSmallOut(DivSmallFrom(a, m, 0, << >>))

\* One digit of long division: floor(r / v) for a divisor v of at least two
\* digits whose top digit is >= Base/2, and r < v * Base.  The estimate from the
\* top digits is at most two too large (Knuth, TAOCP 4.3.1, algorithm D).
\* Returns the digit q and t = q * v.
RECURSIVE QFix(_, _, _, _)
QFix(r, v, q, t) == IF Gt(t, r) THEN QFix(r, v, q - 1, Sub(t, v)) ELSE [q |-> q, t |-> t]

\* the estimate e of the digit, capped at Base - 1
QCap(r, v, e) ==
    IF e > Base - 1 THEN QFix(r, v, Base - 1, MulSmall(v, Base - 1))
    ELSE QFix(r, v, e, MulSmall(v, e))

QDigit(r, v) ==
    IF Lt(r, v) THEN [q |-> 0, t |-> << >>]
    ELSE QCap(r, v, (Limb(r, Len(v) + 1) * Base + r[Len(v)]) \div v[Len(v)])

\* Long division of u by v, from digit k of u downwards: r is the remainder so
\* far, acc the quotient digits found so far, most significant first.
RECURSIVE DivLongFrom(_, _, _, _, _)
\* d is the digit found for the remainder r1
DivLongNext(u, v, k, r1, acc, d) ==
    DivLongFrom(u, v, k, IF d.q = 0 THEN r1 ELSE Sub(r1, d.t), Append(acc, d.q))

\* r1 is the remainder with the next digit of u brought down
DivLongDigit(u, v, k, r1, acc) == DivLongNext(u, v, k, r1, acc, QDigit(r1, v))

DivLongFrom(u, v, k, r, acc) ==
    IF Len(acc) >= k THEN [q |-> acc, r |-> r]
    ELSE DivLongDigit(u, v, k,
                      IF IsZero(r) THEN Num(u[k - Len(acc)]) ELSE << u[k - Len(acc)] >> \o r,
                      acc)

\* the result of the long division s of the operands scaled by d
DivModOut(s, d) == [q |-> Reverse(s.q), r |-> DivSmall(s.r, d).q]

\* un, vn: the operands scaled by d, so that the top digit of vn is >= Base/2
DivModScaled(un, vn, d) ==
    DivModOut(DivLongFrom(un, vn, Len(un) - Len(vn) + 1,
                          SubSeq(un, Len(un) - Len(vn) + 2, Len(un)), << >>),
              d)

DivModBy(u, v, d) == DivModScaled(MulSmall(u, d), MulSmall(v, d), d)

DivModDigit(s) == [q |-> s.q, r |-> Num(s.r)]

\* quotient and remainder of u by v # 0, both in limb form
DivMod(u, v) ==
    IF Lt(u, v) THEN [q |-> << >>, r |-> u]
    ELSE IF Len(v) = 1 THEN DivModDigit(DivSmall(u, v[1]))
    ELSE DivModBy(u, v, Base \div (v[Len(v)] + 1))

Div(u, v) == DivMod(u, v).q
Rem(u, v) == DivMod(u, v).r

\* 2^k
Pow2(k) == [i \in 1..(k \div 15) |-> 0] \o << 2 ^ (k % 15) >>

\* a * 2^k and floor(a / 2^k)
Shl(a, k) == ShiftLimbs(MulSmall(a, 2 ^ (k % 15)), k \div 15)
Shr(a, k) ==
    IF Len(a) <= k \div 15 THEN << >>
    ELSE DivSmall(SubSeq(a, (k \div 15) + 1, Len(a)), 2 ^ (k % 15)).q

\* a mod 2^k
LowBits(a, k) ==
    IF Len(a) <= k \div 15 THEN a
    ELSE Norm(SubSeq(a, 1, k \div 15) \o << a[(k \div 15) + 1] % (2 ^ (k % 15)) >>)

\* whether a < 2^k
FitsBits(a, k) ==
    \/ Len(a) <= k \div 15
    \/ Len(a) = (k \div 15) + 1 /\ a[Len(a)] < 2 ^ (k % 15)

\* the quotient of d, rounded up
RoundUp(d) == IF IsZero(d.r) THEN d.q ELSE Add(d.q, One)

\* ceil(a / b), for b # 0
DivCeil(a, b) == RoundUp(DivMod(a, b))

\* the smaller and the larger of a and b
MinOf(a, b) == IF Lt(a, b) THEN a ELSE b
MaxOf(a, b) == IF Lt(a, b) THEN b ELSE a

\* a number written in decimal, three digits to the group, most significant
\* group first: Dec(<<1, 000, 000>>) is 1,000,000
RECURSIVE DecFrom(_, _, _)
DecFrom(g, i, acc) ==
    IF Len(acc) >= 0 /\ i > Len(g) THEN acc
    ELSE DecFrom(g, i + 1, Add(MulSmall(acc, 1000), Num(g[i])))

Dec(g) == DecFrom(g, 1, << >>)

(***************************************************************************)
(* Machine integer types.                                                  *)
(***************************************************************************)
TWO63  == Pow2(63)
TWO64  == Pow2(64)
TWO128 == Pow2(128)
TWO256 == Pow2(256)

U32_MAX  == Sub(Pow2(32), One)
I64_MAX  == Sub(TWO63, One)
U64_MAX  == Sub(TWO64, One)
U128_MAX == Sub(TWO128, One)
U256_MAX == Sub(TWO256, One)

FitsU64(a)  == FitsBits(a, 64)
FitsU128(a) == FitsBits(a, 128)
FitsU256(a) == FitsBits(a, 256)

\* the value an unsigned type of the given width keeps of a
Wrap(a, width) == LowBits(a, width)

\* an i64: sign and magnitude
I64(neg, mag) == [neg |-> neg /\ ~IsZero(mag), mag |-> mag]
I64_MIN == I64(TRUE, TWO63)
Zero2I64 == I64(FALSE, Zero)

\* i64::is_positive
is_positive(amount) == ~amount.neg /\ ~IsZero(amount.mag)

(***************************************************************************)
(* anyhow::Result: a returned value, a returned error of                   *)
(* TokenMillV2Error, or a panic (the call aborts and returns nothing).     *)
(***************************************************************************)
Ok(v)    == [tag |-> "Ok", val |-> v]
Err(e)   == [tag |-> "Err", err |-> e]
Panic(m) == [tag |-> "Panic", msg |-> m]

IsOk(r)    == r.tag = "Ok"
IsErr(r)   == r.tag = "Err"
IsPanic(r) == r.tag = "Panic"
IsErrOf(r, e) == r.tag = "Err" /\ r.err = e

\* U256::checked_add(..).ok_or(e) and checked_sub(..).ok_or(e)
checked_add_u256(a, b, e) == IF FitsU256(Add(a, b)) THEN Ok(Add(a, b)) ELSE Err(e)
checked_sub(a, b, e)      == IF Lt(a, b) THEN Err(e) ELSE Ok(Sub(a, b))

\* a wide value narrowed to u128 with try_into().map_err(|_| e)
narrow_u128(wide, e) == IF FitsU128(wide) THEN Ok(wide) ELSE Err(e)

(***************************************************************************)
(* src/quote/math.rs                                                       *)
(***************************************************************************)
\* Variant: the product is formed at the width of its operands.
mul_div_in_u256(x, y, denominator) ==
    IF IsZero(denominator) THEN Err("DivisionByZero")
    ELSE narrow_u128(Div(Wrap(Mul(x, y), 256), denominator), "AmountOverflow")

mul_div(x, y, denominator) ==
    IF IsZero(denominator) THEN Err("DivisionByZero")
    ELSE narrow_u128(Div(Wrap(Mul(x, y), 512), denominator), "AmountOverflow")

\* Variant: rounding up adds two.
round_up_by_two(result, x, denominator) ==
    IF ~IsOk(result) THEN result
    ELSE IF IsZero(Rem(x, denominator)) THEN result
    ELSE IF Ge(Add(result.val, One), U128_MAX) THEN Err("AmountOverflow")
    ELSE Ok(Add(result.val, Num(2)))

\* lines 26-32: result is what mul_div returned
round_up(result, x, denominator) ==
    IF ~IsOk(result) THEN result
    ELSE IF IsZero(Rem(x, denominator)) THEN result
    ELSE IF result.val = U128_MAX THEN Err("AmountOverflow")
    ELSE Ok(Add(result.val, One))

mul_div_round_up(x, y, denominator) == round_up(mul_div(x, y, denominator), x, denominator)

(***************************************************************************)
(* src/quote/swap_math.rs                                                  *)
(***************************************************************************)
MAX_FEE_U128 == 1000000
SQRT_PRICE_SHIFT == 96

MAX_FEE == Num(MAX_FEE_U128)

\* a value shifted left that no longer fits U256 saturates
saturate_u256(shifted) == IF FitsU256(shifted) THEN shifted ELSE U256_MAX

\* U256::saturating_shl
saturating_shl(a, k) == saturate_u256(Shl(a, k))

\* ruint's `*` on U256 wraps
mul_u256(a, b) == Wrap(Mul(a, b), 256)

\* lines 152-168, for sqrt_price_a <= sqrt_price_b
get_amount_0_sorted(sqrt_price_a, sqrt_price_b, liquidity, adding) ==
    IF Lt(sqrt_price_b, sqrt_price_a) THEN Err("AmountUnderflow")
    ELSE IF adding
    THEN mul_div_round_up(saturating_shl(liquidity, SQRT_PRICE_SHIFT),
                          Sub(sqrt_price_b, sqrt_price_a),
                          mul_u256(sqrt_price_a, sqrt_price_b))
    ELSE mul_div(saturating_shl(liquidity, SQRT_PRICE_SHIFT),
                 Sub(sqrt_price_b, sqrt_price_a),
                 mul_u256(sqrt_price_a, sqrt_price_b))

\* Variant: get_amount_0 takes the prices as they are given.
get_amount_0_as_given(sqrt_price_a, sqrt_price_b, liquidity, adding) ==
    get_amount_0_sorted(sqrt_price_a, sqrt_price_b, liquidity, adding)

get_amount_0(sqrt_price_a, sqrt_price_b, liquidity, adding) ==
    get_amount_0_sorted(MinOf(sqrt_price_a, sqrt_price_b), MaxOf(sqrt_price_a, sqrt_price_b),
                        liquidity, adding)

\* lines 189-198: prod is liquidity * sqrt_price_diff
get_amount_1_of(prod, adding) ==
    IF adding
    THEN narrow_u128(DivCeil(prod, Pow2(SQRT_PRICE_SHIFT)), "AmountOverflow")
    ELSE narrow_u128(Shr(prod, SQRT_PRICE_SHIFT), "AmountOverflow")

\* lines 185-198, for sqrt_price_a <= sqrt_price_b
get_amount_1_sorted(sqrt_price_a, sqrt_price_b, liquidity, adding) ==
    IF Lt(sqrt_price_b, sqrt_price_a) THEN Err("AmountUnderflow")
    ELSE get_amount_1_of(mul_u256(liquidity, Sub(sqrt_price_b, sqrt_price_a)), adding)

get_amount_1(sqrt_price_a, sqrt_price_b, liquidity, adding) ==
    get_amount_1_sorted(MinOf(sqrt_price_a, sqrt_price_b), MaxOf(sqrt_price_a, sqrt_price_b),
                        liquidity, adding)

\* i64::abs followed by U256::from: with overflow checks the negation of
\* i64::MIN panics; without them it wraps to i64::MIN, which U256::from rejects
\* with a panic.
abs_to_u256(amount, overflow_checks) ==
    IF amount.neg /\ amount.mag = TWO63
    THEN IF overflow_checks
         THEN Panic("attempt to negate with overflow")
         ELSE Panic("Uint conversion error: negative value")
    ELSE Ok(amount.mag)

\* line 217: abs is U256::from(amount_0.abs())
sub_amount_0(liquidity, sqrt_price, abs) ==
    IF ~IsOk(abs) THEN abs
    ELSE checked_sub(liquidity, mul_u256(abs.val, sqrt_price), "AmountUnderflow")

\* lines 212-219: liquidity is already shifted
denominator_0(sqrt_price, liquidity, amount_0, overflow_checks) ==
    IF is_positive(amount_0)
    THEN checked_add_u256(liquidity, mul_u256(amount_0.mag, sqrt_price), "AmountOverflow")
    ELSE sub_amount_0(liquidity, sqrt_price, abs_to_u256(amount_0, overflow_checks))

\* line 221
next_price_0(sqrt_price, liquidity, denominator) ==
    IF ~IsOk(denominator) THEN denominator
    ELSE mul_div_round_up(liquidity, sqrt_price, denominator.val)

\* lines 210-221: liquidity is already shifted
next_sqrt_ratio_0(sqrt_price, liquidity, amount_0, overflow_checks) ==
    next_price_0(sqrt_price, liquidity,
                 denominator_0(sqrt_price, liquidity, amount_0, overflow_checks))

get_next_sqrt_ratio_from_amount_0(sqrt_price, liquidity, amount_0, overflow_checks) ==
    IF IsZero(amount_0.mag) THEN Ok(sqrt_price)
    ELSE next_sqrt_ratio_0(sqrt_price, saturating_shl(liquidity, SQRT_PRICE_SHIFT),
                           amount_0, overflow_checks)

\* line 235: abs is U256::from(amount_1.abs())
sub_amount_1(liquidity_x_price, abs) ==
    IF ~IsOk(abs) THEN abs
    ELSE checked_sub(liquidity_x_price, saturating_shl(abs.val, SQRT_PRICE_SHIFT),
                     "AmountUnderflow")

\* lines 230-237
numerator_1(liquidity_x_price, amount_1, overflow_checks) ==
    IF is_positive(amount_1)
    THEN checked_add_u256(liquidity_x_price, saturating_shl(amount_1.mag, SQRT_PRICE_SHIFT),
                          "AmountOverflow")
    ELSE sub_amount_1(liquidity_x_price, abs_to_u256(amount_1, overflow_checks))

\* lines 239-243
next_price_1(numerator, liquidity) ==
    IF ~IsOk(numerator) THEN numerator
    ELSE IF IsZero(liquidity) THEN Err("DivisionByZero")
    ELSE narrow_u128(Div(numerator.val, liquidity), "PriceOverflow")

get_next_sqrt_ratio_from_amount_1(sqrt_price, liquidity, amount_1, overflow_checks) ==
    next_price_1(numerator_1(mul_u256(sqrt_price, liquidity), amount_1, overflow_checks),
                 liquidity)

\* The four outputs of get_delta_amounts
Quote(new_sqrt_price, amount_in, amount_out, fee_amount) ==
    [new_sqrt_price |-> new_sqrt_price, amount_in |-> amount_in,
     amount_out |-> amount_out, fee_amount |-> fee_amount]

\* The run of one call: what it returns, the outcome of the cap probe toward
\* target_sqrt_price ("none" when the call ends before it) and the branch taken
\* ("none", "noop", "not_reached", "reached").
Frame(result, probe, branch) == [result |-> result, probe |-> probe, branch |-> branch]

NoProbe == [tag |-> "none"]

\* `zero_for_one` selects the function pair (get_amount_in, get_amount_out)
get_amount_in(zero_for_one, a, b, liquidity, adding) ==
    IF zero_for_one THEN get_amount_0(a, b, liquidity, adding)
    ELSE get_amount_1(a, b, liquidity, adding)

get_amount_out(zero_for_one, a, b, liquidity, adding) ==
    IF zero_for_one THEN get_amount_1(a, b, liquidity, adding)
    ELSE get_amount_0(a, b, liquidity, adding)

\* the next price for an amount of the input token (lines 56-68) ...
next_price_for_input(zero_for_one, sqrt_price, liquidity, amount, overflow_checks) ==
    IF zero_for_one
    THEN get_next_sqrt_ratio_from_amount_0(sqrt_price, liquidity, amount, overflow_checks)
    ELSE get_next_sqrt_ratio_from_amount_1(sqrt_price, liquidity, amount, overflow_checks)

\* ... and of the output token (lines 113-117)
next_price_for_output(zero_for_one, sqrt_price, liquidity, amount, overflow_checks) ==
    IF zero_for_one
    THEN get_next_sqrt_ratio_from_amount_1(sqrt_price, liquidity, amount, overflow_checks)
    ELSE get_next_sqrt_ratio_from_amount_0(sqrt_price, liquidity, amount, overflow_checks)

\* Variant: the probe's AmountOverflow is handed on like any other error.
probe_cap_strict(probe) == probe

\* the or_else on the cap probe: AmountOverflow becomes u128::MAX, every other
\* error is handed on
probe_cap(probe) == IF IsErrOf(probe, "AmountOverflow") THEN Ok(U128_MAX) ELSE probe

\* Variant: the narrowing truncates, as `as u64` does.
narrow_u64_wrapping(r, e) == IF ~IsOk(r) THEN r ELSE Ok(Wrap(r.val, 64))

\* x.try_into::<u64>().map_err(|_| e)
narrow_u64(r, e) == IF ~IsOk(r) THEN r ELSE IF FitsU64(r.val) THEN r ELSE Err(e)

\* `x as u64`
as_u64(a) == Wrap(a, 64)

\* u128::div_ceil, which panics on a zero divisor
div_ceil_u128(a, b) ==
    IF IsZero(b) THEN Panic("attempt to divide by zero") ELSE Ok(DivCeil(a, b))

\* the unchecked `a - b` on u128
sub_u128(a, b, overflow_checks) ==
    IF Ge(a, b) THEN Ok(Sub(a, b))
    ELSE IF overflow_checks THEN Panic("attempt to subtract with overflow")
    ELSE Ok(Sub(TWO128, Sub(b, a)))

\* the unchecked u128 product p
unchecked_u128(p, overflow_checks) ==
    IF FitsU128(p) THEN Ok(p)
    ELSE IF overflow_checks THEN Panic("attempt to multiply with overflow")
    ELSE Ok(Wrap(p, 128))

\* the unchecked `a * b` on u128
mul_u128(a, b, overflow_checks) == unchecked_u128(Mul(a, b), overflow_checks)

\* Variant: the fee is a hundredth of amount_in, not the rest of the offer.
exact_in_hundredth_fee(new_sqrt_price, delta, amount_in) ==
    IF ~IsOk(amount_in) THEN amount_in
    ELSE Ok(Quote(new_sqrt_price, amount_in.val, Zero, Div(amount_in.val, Num(100))))

\* line 73: fee_amount = delta_amount.checked_sub(amount_in)
exact_in_remainder_fee(new_sqrt_price, delta, amount_in) ==
    IF ~IsOk(amount_in) THEN amount_in
    ELSE IF Lt(delta, amount_in.val) THEN Err("AmountUnderflow")
    ELSE Ok(Quote(new_sqrt_price, amount_in.val, Zero, Sub(delta, amount_in.val)))

\* lines 70-73: new_sqrt_price is what the solver returned
exact_in_moved(zero_for_one, sqrt_price, liquidity, delta, new_sqrt_price) ==
    IF ~IsOk(new_sqrt_price) THEN new_sqrt_price
    ELSE exact_in_remainder_fee(
             new_sqrt_price.val, delta,
             narrow_u64(get_amount_in(zero_for_one, sqrt_price, new_sqrt_price.val,
                                      liquidity, TRUE),
                        "AmountInOverflow"))

\* lines 56-73: the boundary is not reached
exact_in_not_reached(zero_for_one, sqrt_price, liquidity, delta, amount_in_available, overflow_checks) ==
    IF Gt(amount_in_available, I64_MAX) THEN Err("AmountInOverflow")
    ELSE exact_in_moved(zero_for_one, sqrt_price, liquidity, delta,
                        next_price_for_input(zero_for_one, sqrt_price, liquidity,
                                             I64(FALSE, amount_in_available),
                                             overflow_checks))

\* lines 75-85 with the fee_amount computed
exact_in_reached_quote(target_sqrt_price, max_amount_in, fee_amount) ==
    IF ~IsOk(fee_amount) THEN fee_amount
    ELSE Ok(Quote(target_sqrt_price, as_u64(max_amount_in), Zero, fee_amount.val))

\* lines 79-85: prod is max_amount_in * fee
exact_in_reached_fee(target_sqrt_price, max_amount_in, prod, fee_inverse) ==
    IF ~IsOk(prod) THEN prod
    ELSE exact_in_reached_quote(
             target_sqrt_price, max_amount_in,
             narrow_u64(div_ceil_u128(prod.val, fee_inverse), "FeeAmountOverflow"))

\* Variant: the fee on the capped input is rounded down.
exact_in_reached_floor(target_sqrt_price, max_amount_in, fee, fee_inverse) ==
    IF IsZero(fee_inverse) THEN Panic("attempt to divide by zero")
    ELSE Ok(Quote(target_sqrt_price, Wrap(max_amount_in, 64), Zero, Div(Mul(max_amount_in, fee), fee_inverse)))

\* lines 75-85: the boundary is reached
exact_in_reached(target_sqrt_price, max_amount_in, fee, fee_inverse) ==
    exact_in_reached_fee(target_sqrt_price, max_amount_in,
                         narrow_u128(Mul(max_amount_in, fee), "AmountOverflow"), fee_inverse)

\* Variant: an amount_out that failed is reported as no output.
with_amount_out_or_zero(q, amount_out) ==
    IF ~IsOk(amount_out) THEN Ok([q EXCEPT !.amount_out = Zero])
    ELSE Ok([q EXCEPT !.amount_out = amount_out.val])

\* the quote q with the amount_out computed
with_amount_out(q, amount_out) ==
    IF ~IsOk(amount_out) THEN amount_out
    ELSE Ok([q EXCEPT !.amount_out = amount_out.val])

\* lines 88-90: amount_out of the exact-in mode, put into the quote q
exact_in_amount_out(zero_for_one, sqrt_price, liquidity, q) ==
    IF ~IsOk(q) THEN q
    ELSE with_amount_out(
             q.val,
             narrow_u64(get_amount_out(zero_for_one, sqrt_price, q.val.new_sqrt_price,
                                       liquidity, FALSE),
                        "AmountOutOverflow"))

\* Variant: the fee is not taken off the offered amount.
amount_in_available_no_fee(fee_inverse, delta) == Ok(delta)

\* lines 35-39: what is left of the offered amount after the fee
amount_in_available_of(fee_inverse, delta) ==
    IF ~FitsU128(Mul(fee_inverse, delta)) THEN Err("AmountOverflow")
    ELSE Ok(Div(Mul(fee_inverse, delta), MAX_FEE))

\* lines 55-86: the branch on max_amount_in > amount_in_available
exact_in_branch(zero_for_one, sqrt_price, target_sqrt_price, liquidity, delta, fee, fee_inverse, amount_in_available, max_amount_in, overflow_checks) ==
    IF Gt(max_amount_in, amount_in_available)
    THEN exact_in_not_reached(zero_for_one, sqrt_price, liquidity, delta,
                              amount_in_available, overflow_checks)
    ELSE exact_in_reached(target_sqrt_price, max_amount_in, fee, fee_inverse)

\* lines 43-90: max_amount_in is the probe's outcome after the or_else
exact_in_capped(zero_for_one, sqrt_price, target_sqrt_price, liquidity, delta, fee, fee_inverse, amount_in_available, probe, max_amount_in, overflow_checks) ==
    IF ~IsOk(max_amount_in) THEN Frame(max_amount_in, probe, "none")
    ELSE Frame(exact_in_amount_out(
                   zero_for_one, sqrt_price, liquidity,
                   exact_in_branch(zero_for_one, sqrt_price, target_sqrt_price, liquidity,
                                   delta, fee, fee_inverse, amount_in_available,
                                   max_amount_in.val, overflow_checks)),
               probe,
               IF Gt(max_amount_in.val, amount_in_available) THEN "not_reached"
               ELSE "reached")

\* lines 43-53: probe is get_amount_in toward the target
exact_in_probed(zero_for_one, sqrt_price, target_sqrt_price, liquidity, delta, fee, fee_inverse, amount_in_available, probe, overflow_checks) ==
    exact_in_capped(zero_for_one, sqrt_price, target_sqrt_price, liquidity, delta, fee,
                    fee_inverse, amount_in_available, probe, probe_cap(probe),
                    overflow_checks)

\* lines 35-90: amount_in_available is what lines 35-39 returned
exact_in_available(zero_for_one, sqrt_price, target_sqrt_price, liquidity, delta, fee, fee_inverse, amount_in_available, overflow_checks) ==
    IF ~IsOk(amount_in_available) THEN Frame(amount_in_available, NoProbe, "none")
    ELSE exact_in_probed(zero_for_one, sqrt_price, target_sqrt_price, liquidity, delta, fee,
                         fee_inverse, amount_in_available.val,
                         get_amount_in(zero_for_one, sqrt_price, target_sqrt_price,
                                       liquidity, TRUE),
                         overflow_checks)

\* lines 35-90, with fee_inverse = MAX_FEE_U128 - fee
exact_in_with_fee(zero_for_one, sqrt_price, target_sqrt_price, liquidity, delta, fee, fee_inverse, overflow_checks) ==
    exact_in_available(zero_for_one, sqrt_price, target_sqrt_price, liquidity, delta, fee,
                       fee_inverse, amount_in_available_of(fee_inverse, delta),
                       overflow_checks)

\* lines 30-90: delta_amount > 0
exact_in(zero_for_one, sqrt_price, target_sqrt_price, liquidity, delta_amount, fee, overflow_checks) ==
    IF Lt(MAX_FEE, fee) THEN Frame(Err("AmountUnderflow"), NoProbe, "none")
    ELSE exact_in_with_fee(zero_for_one, sqrt_price, target_sqrt_price, liquidity,
                           delta_amount.mag, fee, Sub(MAX_FEE, fee), overflow_checks)

\* lines 129-135 with the fee_amount computed
exact_out_quote(new_sqrt_price, amount_in, amount_out, fee_amount) ==
    IF ~IsOk(fee_amount) THEN fee_amount
    ELSE Ok(Quote(new_sqrt_price, amount_in, amount_out, fee_amount.val))

\* lines 129-132: prod is amount_in * fee, fee_inverse is MAX_FEE_U128 - fee
exact_out_fee(new_sqrt_price, amount_in, amount_out, prod, fee_inverse) ==
    IF ~IsOk(prod) THEN prod
    ELSE IF ~IsOk(fee_inverse) THEN fee_inverse
    ELSE exact_out_quote(
             new_sqrt_price, amount_in, amount_out,
             narrow_u64(div_ceil_u128(prod.val, fee_inverse.val), "FeeAmountOverflow"))

\* lines 125-132: amount_in is what the narrowing of line 127 returned
exact_out_charged(new_sqrt_price, amount_in, amount_out, fee, overflow_checks) ==
    IF ~IsOk(amount_in) THEN amount_in
    ELSE exact_out_fee(new_sqrt_price, amount_in.val, amount_out,
                       mul_u128(amount_in.val, fee, overflow_checks),
                       sub_u128(MAX_FEE, fee, overflow_checks))

\* lines 125-132: amount_in and fee_amount of the exact-out mode
exact_out_amount_in(zero_for_one, sqrt_price, liquidity, new_sqrt_price, amount_out, fee, overflow_checks) ==
    exact_out_charged(new_sqrt_price,
                      narrow_u64(get_amount_in(zero_for_one, sqrt_price, new_sqrt_price,
                                               liquidity, TRUE),
                                 "AmountInOverflow"),
                      amount_out, fee, overflow_checks)

\* lines 113-118: new_sqrt_price is what the solver returned
exact_out_solved(new_sqrt_price, amount_out) ==
    IF ~IsOk(new_sqrt_price) THEN new_sqrt_price
    ELSE Ok([new_sqrt_price |-> new_sqrt_price.val, amount_out |-> amount_out])

\* Variant: the two solvers are swapped between the directions.
exact_out_not_reached_swapped(zero_for_one, sqrt_price, liquidity, delta_amount, overflow_checks) ==
    exact_out_solved(next_price_for_input(zero_for_one, sqrt_price, liquidity, delta_amount, overflow_checks), delta_amount.mag)

\* Variant: amount_out is derived from the price movement, rounded down.
exact_out_not_reached_recomputed(zero_for_one, sqrt_price, liquidity, delta_amount, overflow_checks) ==
    LET new_sqrt_price == next_price_for_output(zero_for_one, sqrt_price, liquidity, delta_amount, overflow_checks)
    IN  IF ~IsOk(new_sqrt_price) THEN new_sqrt_price
        ELSE LET moved == get_amount_out(zero_for_one, sqrt_price, new_sqrt_price.val, liquidity, FALSE)
             IN  IF ~IsOk(moved) THEN moved
                 ELSE Ok([new_sqrt_price |-> new_sqrt_price.val, amount_out |-> Wrap(moved.val, 64)])

\* lines 113-118: the boundary is not reached; the price and amount_out
exact_out_not_reached(zero_for_one, sqrt_price, liquidity, delta_amount, overflow_checks) ==
    exact_out_solved(next_price_for_output(zero_for_one, sqrt_price, liquidity,
                                           delta_amount, overflow_checks),
                     delta_amount.mag)

\* Variant: the capped payout is one more than the pool yields.
exact_out_reached_one_more(target_sqrt_price, max_amount_out) ==
    Ok([new_sqrt_price |-> target_sqrt_price, amount_out |-> Wrap(Add(max_amount_out, One), 64)])

\* lines 120-122: the boundary is reached; the price and amount_out
exact_out_reached(target_sqrt_price, max_amount_out) ==
    Ok([new_sqrt_price |-> target_sqrt_price, amount_out |-> as_u64(max_amount_out)])

\* lines 112-123: the branch on max_amount_out > amount_out_to_fill
exact_out_branch(zero_for_one, sqrt_price, target_sqrt_price, liquidity, delta_amount, max_amount_out, overflow_checks) ==
    IF Gt(max_amount_out, delta_amount.mag)
    THEN exact_out_not_reached(zero_for_one, sqrt_price, liquidity, delta_amount,
                               overflow_checks)
    ELSE exact_out_reached(target_sqrt_price, max_amount_out)

\* lines 125-132: moved is the price and amount_out of the branch taken
exact_out_moved(zero_for_one, sqrt_price, liquidity, fee, moved, overflow_checks) ==
    IF ~IsOk(moved) THEN moved
    ELSE exact_out_amount_in(zero_for_one, sqrt_price, liquidity, moved.val.new_sqrt_price,
                             moved.val.amount_out, fee, overflow_checks)

\* lines 100-132: max_amount_out is the probe's outcome after the or_else
exact_out_capped(zero_for_one, sqrt_price, target_sqrt_price, liquidity, delta_amount, fee, probe, max_amount_out, overflow_checks) ==
    IF ~IsOk(max_amount_out) THEN Frame(max_amount_out, probe, "none")
    ELSE Frame(exact_out_moved(
                   zero_for_one, sqrt_price, liquidity, fee,
                   exact_out_branch(zero_for_one, sqrt_price, target_sqrt_price, liquidity,
                                    delta_amount, max_amount_out.val, overflow_checks),
                   overflow_checks),
               probe,
               IF Gt(max_amount_out.val, delta_amount.mag) THEN "not_reached"
               ELSE "reached")

\* lines 100-110: probe is get_amount_out toward the target
exact_out_probed(zero_for_one, sqrt_price, target_sqrt_price, liquidity, delta_amount, fee, probe, overflow_checks) ==
    exact_out_capped(zero_for_one, sqrt_price, target_sqrt_price, liquidity, delta_amount,
                     fee, probe, probe_cap(probe), overflow_checks)

\* lines 96-132: delta_amount < 0
exact_out(zero_for_one, sqrt_price, target_sqrt_price, liquidity, delta_amount, fee, overflow_checks) ==
    exact_out_probed(zero_for_one, sqrt_price, target_sqrt_price, liquidity, delta_amount,
                     fee,
                     get_amount_out(zero_for_one, sqrt_price, target_sqrt_price, liquidity,
                                    FALSE),
                     overflow_checks)

\* Variant: a zero delta_amount is not short-circuited.
run_get_delta_amounts_no_noop(sqrt_price, target_sqrt_price, liquidity, delta_amount, fee, overflow_checks) ==
    IF is_positive(delta_amount)
    THEN exact_in(Lt(target_sqrt_price, sqrt_price), sqrt_price, target_sqrt_price, liquidity, delta_amount, fee, overflow_checks)
    ELSE exact_out(Lt(target_sqrt_price, sqrt_price), sqrt_price, target_sqrt_price, liquidity, delta_amount, fee, overflow_checks)

\* The run of get_delta_amounts(sqrt_price, target_sqrt_price, liquidity,
\* delta_amount, fee) in a build with or without overflow checks.
run_get_delta_amounts(sqrt_price, target_sqrt_price, liquidity, delta_amount, fee, overflow_checks) ==
    IF is_positive(delta_amount)
    THEN exact_in(Lt(target_sqrt_price, sqrt_price), sqrt_price, target_sqrt_price,
                  liquidity, delta_amount, fee, overflow_checks)
    ELSE IF IsZero(delta_amount.mag)
    THEN Frame(Ok(Quote(sqrt_price, Zero, Zero, Zero)), NoProbe, "noop")
    ELSE exact_out(Lt(target_sqrt_price, sqrt_price), sqrt_price, target_sqrt_price,
                   liquidity, delta_amount, fee, overflow_checks)

get_delta_amounts(sqrt_price, target_sqrt_price, liquidity, delta_amount, fee, overflow_checks) ==
    run_get_delta_amounts(sqrt_price, target_sqrt_price, liquidity, delta_amount, fee,
                          overflow_checks).result

(***************************************************************************)
(* The inputs of a call.                                                   *)
(***************************************************************************)
\* src/test_utils/constants.rs
SQRT_PRICE_A == Dec(<<419, 236, 029, 690, 706, 642, 379, 639, 606>>)
FEE == 10000

\* sqrt prices 0 .. MaxSmall taken as they are, k * 2^95 for k in 1 .. MaxGrid
\* (sqrt price 1.0 is 2^96), the lower end of the test market's curve, and u128::MAX
MaxSmall == 0
MaxGrid == 2

SqrtPrices ==
    {Num(k) : k \in 0..MaxSmall}
    \cup {Shl(Num(k), SQRT_PRICE_SHIFT - 1) : k \in 1..MaxGrid}
    \cup {SQRT_PRICE_A, U128_MAX}

Liquidities == {Zero, One, Dec(<<1, 000, 000, 000, 000>>), Pow2(100), U128_MAX}

Deltas ==
    {Zero2I64, I64(FALSE, One), I64(FALSE, Dec(<<1, 000, 000, 000>>)), I64(FALSE, I64_MAX),
     I64(TRUE, One), I64(TRUE, Dec(<<1, 000, 000, 000>>)), I64_MIN}

Fees == {Num(f) : f \in {0, FEE, MAX_FEE_U128 - 1, MAX_FEE_U128, MAX_FEE_U128 + 1}}

(***************************************************************************)
(* One call of get_delta_amounts: the caller's arguments, the build, and   *)
(* what the call left behind.  The conversions and mul_div are public      *)
(* functions too: `args` holds the arguments of a direct call of one of    *)
(* them, and `result` what it returned.                                    *)
(***************************************************************************)
VARIABLES
    sqrt_price,         \* u128
    target_sqrt_price,  \* u128
    liquidity,          \* u128
    delta_amount,       \* i64
    fee,                \* u32
    overflow_checks,    \* whether the build checks unchecked arithmetic (debug) or wraps
    pc,                 \* "call" before the call, "done" after it
    result,             \* what the call returned: Ok, Err or Panic
    probe,              \* the outcome of the cap probe
    branch,             \* the branch the call took
    args                \* the function called and, for a direct call, its arguments

vars == <<sqrt_price, target_sqrt_price, liquidity, delta_amount, fee, overflow_checks, pc, result, probe, branch, args>>

inputs == <<sqrt_price, target_sqrt_price, liquidity, delta_amount, fee, overflow_checks>>

Init ==
    /\ sqrt_price \in SqrtPrices
    /\ target_sqrt_price \in SqrtPrices
    /\ liquidity \in Liquidities
    /\ delta_amount \in Deltas
    /\ fee \in Fees
    /\ overflow_checks \in BOOLEAN
    /\ pc = "call"
    /\ result = NoProbe
    /\ probe = NoProbe
    /\ branch = "none"
    /\ args = [fn |-> "get_delta_amounts"]

\* the call returns: what the run f leaves behind
Returned(f) ==
    /\ result' = f.result
    /\ probe' = f.probe
    /\ branch' = f.branch

GetDeltaAmounts ==
    /\ pc = "call"
    /\ Returned(run_get_delta_amounts(sqrt_price, target_sqrt_price, liquidity,
                                      delta_amount, fee, overflow_checks))
    /\ pc' = "done"
    /\ UNCHANGED <<inputs, args>>

Next == GetDeltaAmounts

Spec == Init /\ [][Next]_vars

(***************************************************************************)
(* Direct calls of the conversions get_amount_0 and get_amount_1, on the   *)
(* prices and liquidities of the calls above, in either order and under    *)
(* either rounding policy.                                                 *)
(***************************************************************************)
\* the variables of a get_delta_amounts call, which a direct call leaves alone
Idle ==
    /\ sqrt_price = Zero
    /\ target_sqrt_price = Zero
    /\ liquidity = Zero
    /\ delta_amount = Zero2I64
    /\ fee = Zero
    /\ overflow_checks = TRUE
    /\ pc = "call"
    /\ result = NoProbe
    /\ probe = NoProbe
    /\ branch = "none"

AmountInit ==
    /\ args \in [fn : {"get_amount_0", "get_amount_1"},
                 sqrt_price_a : SqrtPrices, sqrt_price_b : SqrtPrices,
                 liquidity : Liquidities, adding : BOOLEAN]
    /\ Idle

GetAmount0 ==
    /\ pc = "call"
    /\ args.fn = "get_amount_0"
    /\ result' = get_amount_0(args.sqrt_price_a, args.sqrt_price_b, args.liquidity, args.adding)
    /\ pc' = "done"
    /\ UNCHANGED <<inputs, args, probe, branch>>

GetAmount1 ==
    /\ pc = "call"
    /\ args.fn = "get_amount_1"
    /\ result' = get_amount_1(args.sqrt_price_a, args.sqrt_price_b, args.liquidity, args.adding)
    /\ pc' = "done"
    /\ UNCHANGED <<inputs, args, probe, branch>>

AmountNext == GetAmount0 \/ GetAmount1

AmountSpec == AmountInit /\ [][AmountNext]_vars

(***************************************************************************)
(* Direct calls of mul_div on U256 operands: small numbers, the grid of    *)
(* sqrt prices, and the ends of the u128 and U256 ranges.                  *)
(***************************************************************************)
Operands ==
    {Num(k) : k \in 0..(MaxSmall + 1)}
    \cup {Shl(Num(k), SQRT_PRICE_SHIFT - 1) : k \in 1..MaxGrid}
    \cup {U128_MAX, TWO128, Sub(U256_MAX, One), U256_MAX}

MulDivInit ==
    /\ args \in [fn : {"mul_div"}, x : Operands, y : Operands, denominator : Operands]
    /\ Idle

MulDiv ==
    /\ pc = "call"
    /\ args.fn = "mul_div"
    /\ result' = mul_div(args.x, args.y, args.denominator)
    /\ pc' = "done"
    /\ UNCHANGED <<inputs, args, probe, branch>>

MulDivNext == MulDiv

MulDivSpec == MulDivInit /\ [][MulDivNext]_vars

\* the conversion a direct call applied, on other arguments
get_amount(sqrt_price_a, sqrt_price_b, adding) ==
    IF args.fn = "get_amount_0"
    THEN get_amount_0(sqrt_price_a, sqrt_price_b, args.liquidity, adding)
    ELSE get_amount_1(sqrt_price_a, sqrt_price_b, args.liquidity, adding)

\* a direct call of a conversion has returned
Converted == pc = "done" /\ args.fn \in {"get_amount_0", "get_amount_1"}

(***************************************************************************)
(* The call seen from outside.                                             *)
(***************************************************************************)
Done       == pc = "done"
Succeeded  == pc = "done" /\ IsOk(result)
ExactIn    == ~delta_amount.neg /\ ~IsZero(delta_amount.mag)
ExactOut   == delta_amount.neg
ZeroForOne == Lt(target_sqrt_price, sqrt_price)
Requested  == delta_amount.mag

\* the cap the call compares with: the probe's value, u128::MAX when it overflowed
Cap == IF IsOk(probe) THEN probe.val ELSE U128_MAX
ProbeOverflowed == IsErrOf(probe, "AmountOverflow")

\* floor(delta * (1,000,000 - fee) / 1,000,000), for fee <= 1,000,000
AvailableAfterFee == Div(Mul(Sub(MAX_FEE, fee), Requested), MAX_FEE)

\* ceil(a * fee / (1,000,000 - fee)), for fee < 1,000,000
FeeOnTop(a) == DivCeil(Mul(a, fee), Sub(MAX_FEE, fee))

\* the price the not-reached branch solves from the requested amount
SolvedPrice ==
    IF ExactIn
    THEN IF ZeroForOne
         THEN get_next_sqrt_ratio_from_amount_0(sqrt_price, liquidity, I64(FALSE, AvailableAfterFee), overflow_checks)
         ELSE get_next_sqrt_ratio_from_amount_1(sqrt_price, liquidity, I64(FALSE, AvailableAfterFee), overflow_checks)
    ELSE IF ZeroForOne
         THEN get_next_sqrt_ratio_from_amount_1(sqrt_price, liquidity, delta_amount, overflow_checks)
         ELSE get_next_sqrt_ratio_from_amount_0(sqrt_price, liquidity, delta_amount, overflow_checks)

\* C1: on every Ok result the new price lies between the input price and the
\* target, inclusive: target <= new <= price when target < price, and
\* price <= new <= target otherwise.
C1_PriceBetween ==
    Succeeded =>
        IF ZeroForOne
        THEN Le(target_sqrt_price, result.val.new_sqrt_price) /\ Le(result.val.new_sqrt_price, sqrt_price)
        ELSE Le(sqrt_price, result.val.new_sqrt_price) /\ Le(result.val.new_sqrt_price, target_sqrt_price)

\* an exact-out call that stops strictly between the price and the target
C1_Witness ==
    /\ Succeeded /\ ExactOut /\ branch = "not_reached" /\ ZeroForOne
    /\ Lt(target_sqrt_price, result.val.new_sqrt_price)
    /\ Lt(result.val.new_sqrt_price, sqrt_price)

\* C2: on every Ok result of an exact-in call, amount_in + fee_amount <= delta_amount.
C2_NeverOvercharged ==
    (Succeeded /\ ExactIn) => Le(Add(result.val.amount_in, result.val.fee_amount), Requested)

\* a boundary-reached exact-in call that charges a fee and less than the offer
C2_Witness ==
    /\ Succeeded /\ ExactIn /\ branch = "reached"
    /\ ~IsZero(result.val.fee_amount)
    /\ Lt(Add(result.val.amount_in, result.val.fee_amount), Requested)

\* C3: exact-in with max_amount_in <= amount_in_available: an Ok result has
\* new_sqrt_price = target_sqrt_price, amount_in = max_amount_in <= delta_amount
\* and fee_amount = ceil(max_amount_in * fee / (1,000,000 - fee)).
C3_BoundarySaturation ==
    (Succeeded /\ ExactIn /\ IsOk(probe) /\ Le(probe.val, AvailableAfterFee)) =>
        /\ result.val.new_sqrt_price = target_sqrt_price
        /\ result.val.amount_in = probe.val
        /\ Le(result.val.amount_in, Requested)
        /\ result.val.fee_amount = FeeOnTop(probe.val)

C3_Witness ==
    /\ Succeeded /\ ExactIn /\ IsOk(probe) /\ Le(probe.val, AvailableAfterFee)
    /\ ~IsZero(probe.val) /\ ~IsZero(result.val.fee_amount)
    /\ target_sqrt_price # sqrt_price

\* C4 as stated: exact-out: an Ok result has amount_out = requested exactly when
\* max_amount_out > requested, with the price solved from the signed output
\* delta, and otherwise new_sqrt_price = target_sqrt_price with
\* amount_out = max_amount_out; in every case amount_out <= requested.
C4_ExactlyWhenAbove ==
    (Succeeded /\ ExactOut) =>
        /\ result.val.amount_out = Requested <=> Gt(Cap, Requested)
        /\ Gt(Cap, Requested) => result.val.new_sqrt_price = SolvedPrice.val
        /\ ~Gt(Cap, Requested) =>
               /\ result.val.new_sqrt_price = target_sqrt_price
               /\ result.val.amount_out = Cap
        /\ Le(result.val.amount_out, Requested)

\* C4, amended: exact-out: an Ok result has amount_out = requested, with the price
\* solved from the signed output delta, when max_amount_out > requested, and
\* otherwise new_sqrt_price = target_sqrt_price with amount_out = max_amount_out;
\* in every case amount_out <= requested, and amount_out = requested exactly when
\* max_amount_out >= requested.
C4_ExactOutOutcomes ==
    (Succeeded /\ ExactOut) =>
        /\ Gt(Cap, Requested) =>
               /\ result.val.amount_out = Requested
               /\ result.val.new_sqrt_price = SolvedPrice.val
        /\ ~Gt(Cap, Requested) =>
               /\ result.val.new_sqrt_price = target_sqrt_price
               /\ result.val.amount_out = Cap
        /\ Le(result.val.amount_out, Requested)
        /\ Lt(result.val.amount_out, Requested) <=> Lt(Cap, Requested)
        /\ result.val.amount_out = Requested <=> Ge(Cap, Requested)

\* the pool yields exactly the requested amount at the target: the boundary is
\* reached and the request is filled
C4_Witness ==
    /\ Succeeded /\ ExactOut /\ IsOk(probe)
    /\ probe.val = Requested /\ ~IsZero(Requested)
    /\ branch = "reached"
    /\ result.val.new_sqrt_price = target_sqrt_price
    /\ result.val.amount_out = Requested

\* C5 as stated: when the cap probe fails with AmountOverflow, the call takes the
\* boundary-not-reached branch and does not return an error.
C5_NoErrorAfterOverflow ==
    (Done /\ ProbeOverflowed) => (branch = "not_reached" /\ ~IsErr(result))

\* C5, amended: when the cap probe fails with AmountOverflow, that error is not
\* returned at the probe; the call takes the boundary-not-reached branch with
\* cap = u128::MAX and solves the new price from the requested amount.  It
\* returns Ok with the solved price, or what a later step fails with.
C5_OverflowProbing ==
    (Done /\ ProbeOverflowed) =>
        /\ branch = "not_reached"
        /\ ~IsOk(SolvedPrice) => result = SolvedPrice
        /\ IsOk(result) => (IsOk(SolvedPrice) /\ result.val.new_sqrt_price = SolvedPrice.val)

\* the probe overflows and the call succeeds with a solved price short of the target
C5_Witness ==
    /\ Succeeded /\ ProbeOverflowed /\ branch = "not_reached"
    /\ result.val.new_sqrt_price # target_sqrt_price
    /\ result.val.new_sqrt_price # sqrt_price

\* an exact-in call took the not-reached branch and solved a new price
ExactInSolved == Done /\ ExactIn /\ branch = "not_reached" /\ IsOk(SolvedPrice)

\* the call took one of the two branches after the probe
Branched == Done /\ branch \in {"not_reached", "reached"}

\* the price the branch taken moves to: the target, or the solver's outcome
BranchPrice == IF branch = "reached" THEN Ok(target_sqrt_price) ELSE SolvedPrice

\* lines 70, 88 and 125: the amounts recomputed from the movement to the price
\* new_sqrt_price, before narrowing
RecomputedOut(new_sqrt_price) == get_amount_out(ZeroForOne, sqrt_price, new_sqrt_price, liquidity, FALSE)
RecomputedIn(new_sqrt_price)  == get_amount_in(ZeroForOne, sqrt_price, new_sqrt_price, liquidity, TRUE)

\* the exact-in branch taken produced new_sqrt_price, amount_in and fee_amount:
\* lines 55-86 returned no error and did not panic; amount_in is the outcome of
\* the recomputation of line 70.  Only the reached branch divides by
\* fee_inverse = 1,000,000 - fee (line 83).
ExactInQuoted(new_sqrt_price, amount_in) ==
    /\ Branched /\ ExactIn
    /\ IF branch = "reached"
       THEN Lt(fee, MAX_FEE) /\ FitsU128(Mul(Cap, fee)) /\ FitsU64(FeeOnTop(Cap))
       ELSE /\ ~Gt(AvailableAfterFee, I64_MAX)
            /\ IsOk(new_sqrt_price)
            /\ IsOk(amount_in) /\ FitsU64(amount_in.val) /\ Le(amount_in.val, Requested)

C7_NoOp ==
    (Done /\ IsZero(delta_amount.mag)) => result = Ok(Quote(sqrt_price, Zero, Zero, Zero))

\* a no-op call with zero liquidity, a zero price and fee > 1,000,000
C7_Witness ==
    /\ Done /\ IsZero(delta_amount.mag) /\ IsOk(result)
    /\ IsZero(liquidity) /\ IsZero(sqrt_price) /\ Gt(fee, MAX_FEE)

\* C8: at the two `as u64` casts the value fits in 64 bits, and every amount of
\* an Ok result equals its wide intermediate value.
C8_NoNarrowingWraps ==
    /\ (Done /\ branch = "reached") => FitsU64(Cap)
    /\ (Succeeded /\ branch # "noop") =>
           LET q        == result.val
               wide_in  == get_amount_in(ZeroForOne, sqrt_price, q.new_sqrt_price, liquidity, TRUE)
               wide_out == get_amount_out(ZeroForOne, sqrt_price, q.new_sqrt_price, liquidity, FALSE)
           IN  /\ (ExactIn /\ branch = "reached") =>
                      (q.amount_in = Cap /\ q.fee_amount = FeeOnTop(Cap))
               /\ (ExactIn /\ branch = "not_reached") => q.amount_in = wide_in.val
               /\ ExactIn => q.amount_out = wide_out.val
               /\ (ExactOut /\ branch = "reached") => q.amount_out = Cap
               /\ ExactOut => q.amount_in = wide_in.val
               /\ (ExactOut /\ Lt(fee, MAX_FEE)) => q.fee_amount = FeeOnTop(q.amount_in)

\* a boundary-reached exact-out call whose cap needs more than 32 bits
C8_Witness ==
    /\ Succeeded /\ ExactOut /\ branch = "reached"
    /\ Ge(Cap, Pow2(32)) /\ result.val.amount_out = Cap

\* whether an exact-out call gets as far as the fee computation (line 129)
ExactOutReachesFee ==
    /\ ExactOut
    /\ branch \in {"reached", "not_reached"}
    /\ LET np == IF branch = "reached" THEN Ok(target_sqrt_price) ELSE SolvedPrice
       IN  /\ IsOk(np)
           /\ IsOk(narrow_u64(get_amount_in(ZeroForOne, sqrt_price, np.val, liquidity, TRUE), "AmountInOverflow"))

\* C9: with fee = 1,000,000 a call that reaches a division by the fee-inverse
\* term returns the DivisionByZero error.
C9_ZeroFeeInverse ==
    (Done /\ fee = MAX_FEE /\ ((ExactIn /\ branch = "reached") \/ ExactOutReachesFee)) =>
        IsErrOf(result, "DivisionByZero")

Taxonomy ==
    {"DivisionByZero", "AmountOverflow", "AmountUnderflow", "AmountInOverflow",
     "AmountOutOverflow", "FeeAmountOverflow", "PriceOverflow"}

\* C10: every call ends with Ok or with an error of the taxonomy, never with an
\* abort or a wrapped value; fee > 1,000,000 gives AmountUnderflow in exact-out
\* as in exact-in.
C10_Totality ==
    Done =>
        /\ IsOk(result) \/ (IsErr(result) /\ result.err \in Taxonomy)
        /\ (Gt(fee, MAX_FEE) /\ (ExactIn \/ ExactOutReachesFee)) => IsErrOf(result, "AmountUnderflow")

\* C11: get_amount_0 and get_amount_1 give the same outcome, value or error, on
\* (p_a, p_b) and on (p_b, p_a), and neither fails with AmountUnderflow.
C11_OrderIndependence ==
    Converted =>
        /\ result = get_amount(args.sqrt_price_b, args.sqrt_price_a, args.adding)
        /\ ~IsErrOf(result, "AmountUnderflow")

\* get_amount_0 called with the higher price first returns a non-zero amount
C11_Witness ==
    /\ Converted /\ args.fn = "get_amount_0"
    /\ Gt(args.sqrt_price_a, args.sqrt_price_b)
    /\ IsOk(result) /\ ~IsZero(result.val)

\* C12: for liquidity > 0 and p_a < p_b, when the call with adding = true and
\* the call with adding = false both succeed, the first returns at least what
\* the second returns, and at most one more.
C12_RoundingDirection ==
    (/\ Converted /\ args.adding /\ ~IsZero(args.liquidity)
     /\ Lt(args.sqrt_price_a, args.sqrt_price_b)
     /\ IsOk(result)
     /\ IsOk(get_amount(args.sqrt_price_a, args.sqrt_price_b, FALSE))) =>
        /\ Ge(result.val, get_amount(args.sqrt_price_a, args.sqrt_price_b, FALSE).val)
        /\ Le(result.val, Add(get_amount(args.sqrt_price_a, args.sqrt_price_b, FALSE).val, One))

\* get_amount_0 rounds up to one more than it rounds down to
C12_Witness ==
    /\ Converted /\ args.fn = "get_amount_0" /\ args.adding /\ ~IsZero(args.liquidity)
    /\ Lt(args.sqrt_price_a, args.sqrt_price_b)
    /\ IsOk(result)
    /\ IsOk(get_amount(args.sqrt_price_a, args.sqrt_price_b, FALSE))
    /\ ~IsZero(get_amount(args.sqrt_price_a, args.sqrt_price_b, FALSE).val)
    /\ result.val = Add(get_amount(args.sqrt_price_a, args.sqrt_price_b, FALSE).val, One)

\* the scenario of the test market: an exact-in call of 1,000,000,000 units at
\* the 1% fee, from the lower end of the curve, with positive liquidity
Scenario ==
    /\ Done
    /\ sqrt_price = SQRT_PRICE_A
    /\ ~IsZero(liquidity)
    /\ delta_amount = I64(FALSE, Dec(<<1, 000, 000, 000>>))
    /\ fee = Num(FEE)

\* fee_amount is amount_in / 99, up to integer rounding
FeeIsNinetyNinth ==
    /\ Le(result.val.amount_in, MulSmall(Add(result.val.fee_amount, One), 99))
    /\ Le(MulSmall(result.val.fee_amount, 99), Add(result.val.amount_in, Num(99)))

\* C13 as stated: in the scenario with target_sqrt_price = sqrt_price the call
\* returns amount_in + fee_amount = delta_amount, with fee_amount within one of
\* amount_in / 99.
C13_ScenarioAtTarget ==
    (Scenario /\ target_sqrt_price = sqrt_price) =>
        /\ IsOk(result)
        /\ Add(result.val.amount_in, result.val.fee_amount) = Requested
        /\ FeeIsNinetyNinth

\* C13, amended: in the scenario with target_sqrt_price = sqrt_price the
\* boundary is reached at once and the call returns (sqrt_price, 0, 0, 0), so
\* amount_in + fee_amount = 0.  When the target is not reached,
\* amount_in + fee_amount = delta_amount; in the buy direction with
\* liquidity <= 2^96, amount_in is the whole of the offer after the fee,
\* 990,000,000, and fee_amount is amount_in / 99.
C13_Scenario ==
    /\ (Scenario /\ target_sqrt_price = sqrt_price) =>
           (branch = "reached" /\ result = Ok(Quote(sqrt_price, Zero, Zero, Zero)))
    /\ (Scenario /\ Succeeded /\ branch = "not_reached") =>
           Add(result.val.amount_in, result.val.fee_amount) = Requested
    /\ (Scenario /\ Succeeded /\ branch = "not_reached" /\ ~ZeroForOne
           /\ Le(liquidity, Pow2(SQRT_PRICE_SHIFT))) =>
           /\ result.val.amount_in = AvailableAfterFee
           /\ MulSmall(result.val.fee_amount, 99) = result.val.amount_in
           /\ FeeIsNinetyNinth

\* the scenario with the target at the current price and the liquidity of a market
C13_Witness ==
    /\ Scenario /\ target_sqrt_price = sqrt_price
    /\ liquidity = Dec(<<1, 000, 000, 000, 000>>)
    /\ IsOk(result) /\ branch = "reached"

\* C14: in the exact-in not-reached branch the recomputed amount_in never
\* exceeds a = floor(delta * (1,000,000 - fee) / 1,000,000), the call does not
\* fail with AmountUnderflow, and amount_in + fee_amount = delta_amount.
C14_RoundTripWithinAvailable ==
    ExactInSolved =>
        /\ LET amount_in == RecomputedIn(SolvedPrice.val)
           IN  IsOk(amount_in) => Le(amount_in.val, AvailableAfterFee)
        /\ ~IsErrOf(result, "AmountUnderflow")
        /\ IsOk(result) => Add(result.val.amount_in, result.val.fee_amount) = Requested

\* a direct call of mul_div has returned
Divided == pc = "done" /\ args.fn = "mul_div"

\* floor(x * y / denominator) on the full product, for denominator # 0
FullQuotient == Div(Mul(args.x, args.y), args.denominator)

\* C15: mul_div returns DivisionByZero when the denominator is 0; otherwise
\* floor(x * y / d) of the full product when that fits in 128 bits, and
\* AmountOverflow when it does not.
C15_MulDivExact ==
    Divided =>
        IF IsZero(args.denominator) THEN result = Err("DivisionByZero")
        ELSE IF FitsU128(FullQuotient) THEN result = Ok(FullQuotient)
        ELSE result = Err("AmountOverflow")

\* a product of more than 256 bits whose quotient is returned
C15_Witness ==
    /\ Divided /\ ~IsZero(args.denominator)
    /\ ~FitsU256(Mul(args.x, args.y))
    /\ IsOk(result) /\ Ge(result.val, TWO64)

\* the exact ratio (L * 2^96) * (hi - lo) / (lo * hi) of a direct call of
\* get_amount_0, as quotient and remainder, for lo = min(p_a, p_b) > 0
Ratio0 ==
    DivMod(Mul(Shl(args.liquidity, SQRT_PRICE_SHIFT),
               Sub(MaxOf(args.sqrt_price_a, args.sqrt_price_b),
                   MinOf(args.sqrt_price_a, args.sqrt_price_b))),
           Mul(args.sqrt_price_a, args.sqrt_price_b))

\* C16: for lo = min(p_a, p_b) > 0, get_amount_0 with adding = true returns the
\* ceiling of (L * 2^96) * (hi - lo) / (lo * hi) and with adding = false its
\* floor, whenever that value fits in 128 bits.
C16_RoundingPolicy ==
    (/\ Converted /\ args.fn = "get_amount_0"
     /\ ~IsZero(args.sqrt_price_a) /\ ~IsZero(args.sqrt_price_b)
     /\ FitsU128(RoundUp(Ratio0))) =>
        result = Ok(IF args.adding THEN RoundUp(Ratio0) ELSE Ratio0.q)

\* what the pool releases between the old and the new price, rounded down
Released == get_amount_out(ZeroForOne, sqrt_price, result.val.new_sqrt_price, liquidity, FALSE)

\* C17: on every Ok result of an exact-in or exact-out call, amount_out is at
\* most get_amount_out(sqrt_price, new_sqrt_price, liquidity, false), and equal
\* to it in exact-in and in the exact-out boundary-reached branch.  In the
\* exact-out not-reached branch the code does not call get_amount_out on the new
\* price; where that call would fail, it fails with AmountOverflow: the pool
\* releases more than u128::MAX, and amount_out is a u64.
C17_PayoutCovered ==
    (Succeeded /\ (ExactIn \/ ExactOut)) =>
        LET released == Released
        IN  /\ IsOk(released) => Le(result.val.amount_out, released.val)
            /\ ~IsOk(released) =>
                   (ExactOut /\ branch = "not_reached" /\ IsErrOf(released, "AmountOverflow"))
            /\ (ExactIn \/ branch = "reached") => Ok(result.val.amount_out) = released

\* an exact-out call short of the target, paid less than the pool releases
C17_Witness ==
    /\ Succeeded /\ ExactOut /\ branch = "not_reached"
    /\ ~IsZero(result.val.amount_out)
    /\ LET released == Released
       IN  IsOk(released) /\ Lt(result.val.amount_out, released.val)
====
